---- MODULE Spec2Model ----
(***************************************************************************)
(* Model of SeedreamImagePlugin (src/main.py): the size resolution done at *)
(* construction, the per-user cooldown / duplicate guard of the command    *)
(* handler generate_image, the provider request and image download of an   *)
(* admitted command, the shared HTTP session, the retention sweeper        *)
(* _cleanup_temp_files and terminate.                                      *)
(*                                                                         *)
(* Strings that the code parses (the configured size) are sequences of     *)
(* one-character strings; the clock is time.time() in whole seconds.       *)
(***************************************************************************)
EXTENDS Integers, Sequences, FiniteSets, TLC

VARIABLES
    image_size,        \* config "image_size" as read at line 35 (before strip)
    valid_size,        \* self.valid_size
    size_error,        \* self.size_error ("" when the size was accepted)
    constructed,       \* __init__ has run

    api_key_set,       \* self.api_key is non-empty
    retention_hours,   \* self.retention_hours, kept in seconds (hours * 3600)
    now,               \* the value time.time() returns
    ticks,             \* number of clock advances so far
    last_operations,   \* self.last_operations: user -> time
    processing_users,  \* self.processing_users
    jobs,              \* admitted invocations of generate_image: user -> position -> count
    session,           \* self._session: "none", "open" or "closed"
    sessions_created,  \* number of ClientSession objects created
    sessions_closed,   \* number of ClientSession objects closed
    terminated,        \* terminate has run
    dir_exists,        \* the image directory exists
    files,             \* the files of the image directory: their mtimes, oldest first
    last_cleanup_time, \* self.last_cleanup_time
    cleanup_lock,      \* self.cleanup_lock is held
    sweep_pending,     \* sweep tasks created and not yet inside the lock
    sweepers,          \* sweep tasks inside the lock: sequence of [now |-> time read]
    downloads,         \* calls of _download_generated_image awaiting their GET (SpecSweep)
    event,             \* what the last step did (observation, not program state)
    last_admit,        \* history: user -> time of the user's last admitted command
    last_work          \* history: read time of the last sweep that listed the directory, or -1

vars == <<image_size, valid_size, size_error, constructed, api_key_set,
          retention_hours, now, ticks, last_operations, processing_users, jobs,
          session, sessions_created, sessions_closed, terminated, dir_exists,
          files, last_cleanup_time, cleanup_lock, sweep_pending, sweepers,
          downloads, event, last_admit, last_work>>

sizeVars == <<image_size, valid_size, size_error, constructed>>

plugVars == <<api_key_set, retention_hours, now, ticks, last_operations,
              processing_users, jobs, session, sessions_created,
              sessions_closed, terminated, dir_exists, files,
              last_cleanup_time, cleanup_lock, sweep_pending, sweepers,
              downloads, event, last_admit, last_work>>

(***************************************************************************)
(* Program constants.                                                      *)
(***************************************************************************)
MIN_PIXELS == 3686400

CLEANUP_INTERVAL == 3600

MAX_SIDE == 8192

RATE_LIMIT_SECONDS == 10

DEFAULT_RETENTION == 3600

(***************************************************************************)
(* Strings as sequences of characters.                                     *)
(***************************************************************************)
Digits == <<"0", "1", "2", "3", "4", "5", "6", "7", "8", "9">>

IsDigit(c) == \E i \in 1..10 : Digits[i] = c

DigitValue(c) == (CHOOSE i \in 1..10 : Digits[i] = c) - 1

\* int(s) for a non-empty string of decimal digits (lines 117-118)
RECURSIVE ParseInt(_)
ParseInt(s) ==
    IF Len(s) = 0 THEN 0
    ELSE 10 * ParseInt(SubSeq(s, 1, Len(s) - 1)) + DigitValue(s[Len(s)])

\* str.strip() of lines 33-36, for the blanks of the inputs
RECURSIVE Strip(_)
Strip(s) ==
    IF Len(s) > 0 /\ s[1] = " " THEN Strip(Tail(s))
    ELSE IF Len(s) > 0 /\ s[Len(s)] = " " THEN Strip(SubSeq(s, 1, Len(s) - 1))
    ELSE s

AllDigits(s) == Len(s) > 0 /\ \A i \in 1..Len(s) : IsDigit(s[i])

\* positions of the separator in a match of ^(\d+)x(\d+)$ with re.IGNORECASE
\* (line 111): digits, one "x" or "X", digits, nothing else
SizeMatch(s) ==
    {i \in 1..Len(s) :
        /\ s[i] \in {"x", "X"}
        /\ AllDigits(SubSeq(s, 1, i - 1))
        /\ AllDigits(SubSeq(s, i + 1, Len(s)))}

SizeWidth(s) ==
    ParseInt(SubSeq(s, 1, (CHOOSE i \in SizeMatch(s) : TRUE) - 1))

SizeHeight(s) ==
    ParseInt(SubSeq(s, (CHOOSE i \in SizeMatch(s) : TRUE) + 1, Len(s)))

Size1920 == <<"1", "9", "2", "0", "x", "1", "9", "2", "0">>

Size4096 == <<"4", "0", "9", "6", "x", "4", "0", "9", "6">>

\* _validate_image_size without the check of the sides
ValidateNoSideCheck(size_str) ==
    IF SizeMatch(size_str) = {} THEN <<Size1920, "format">>
    ELSE IF SizeWidth(size_str) * SizeHeight(size_str) < MIN_PIXELS
         THEN <<Size1920, "pixels">>
    ELSE <<size_str, "">>

\* _validate_image_size (lines 109-127): <<size, error>>
_validate_image_size(size_str) ==
    IF SizeMatch(size_str) = {} THEN <<Size1920, "format">>
    ELSE IF SizeWidth(size_str) * SizeHeight(size_str) < MIN_PIXELS
         THEN <<Size1920, "pixels">>
    ELSE IF SizeWidth(size_str) > MAX_SIDE \/ SizeHeight(size_str) > MAX_SIDE
         THEN <<Size4096, "side">>
    ELSE <<size_str, "">>

\* __init__, lines 35 and 40-44: the size the plugin keeps
ResolveSize(raw) ==
    LET r == _validate_image_size(Strip(raw))
    IN  IF r[2] # "" THEN <<Size1920, r[2]>> ELSE r

(***************************************************************************)
(* Configured sizes the size resolution is exercised on.                   *)
(***************************************************************************)
\* str(n) for n >= 0, used to write the configured sizes
RECURSIVE FormatInt(_)
FormatInt(n) ==
    IF n < 10 THEN <<Digits[n + 1]>>
    ELSE FormatInt(n \div 10) \o <<Digits[(n % 10) + 1]>>

SizeValues == {0, 1, 449, 450, 1919, 1920, 1921, 4096, 8192, 8193, 9000}

WellFormedSizes ==
    {FormatInt(w) \o <<sep>> \o FormatInt(h) :
        w \in SizeValues, sep \in {"x", "X"}, h \in SizeValues}

PaddedSizes ==
    {<<" ">> \o Size4096 \o <<" ">>, <<"0">> \o Size4096,
     <<"0", "0">> \o FormatInt(9000) \o <<"x", "0">> \o FormatInt(9000),
     <<" ">> \o FormatInt(8193) \o <<"X">> \o FormatInt(450),
     Size1920 \o <<" ", " ">>}

MalformedSizes ==
    {FormatInt(w) \o <<"*">> \o FormatInt(h) : w \in {1920, 9000}, h \in {1920, 9000}}
    \cup {<<>>, <<" ">>, <<"x">>, FormatInt(4096), FormatInt(4096) \o <<"x">>,
          <<"x">> \o FormatInt(4096), Size4096 \o <<"x", "1">>,
          <<"-">> \o Size4096, <<"4", "0", "9", "6", " ", "x", "4", "0", "9", "6">>,
          <<"4", "k", "x", "4", "k">>, <<"a", "u", "t", "o">>}

SizeInputs == WellFormedSizes \cup PaddedSizes \cup MalformedSizes

DefaultImageSize == Size4096

(***************************************************************************)
(* Retention window, line 55: auto_clean_delay seconds when the key is set *)
(* to a non-zero number, one hour otherwise.  retention_hours is kept in   *)
(* seconds (the code multiplies it by 3600 again at line 153).             *)
(***************************************************************************)
RetentionOf(auto_clean_delay) ==
    IF auto_clean_delay # 0 THEN auto_clean_delay ELSE DEFAULT_RETENTION

\* auto_clean_delay as configured for SpecSweep: negative (no sweeping) or
\* a few seconds
SweepDelays == {-60, 5}

(***************************************************************************)
(* Bounds of the model.                                                    *)
(***************************************************************************)
MaxTicks == 2

MaxSweeps == 2

MaxFiles == 2

Users == {"u1", "u2"}

\* the clock advances by a few seconds (half the cooldown), or by a long
\* step just short of the cleanup interval: a short and a long step add up
\* to exactly CLEANUP_INTERVAL
ShortStep == RATE_LIMIT_SECONDS \div 2

LongStep == CLEANUP_INTERVAL - ShortStep

\* time.time() is seconds since 1970: far more than CLEANUP_INTERVAL
StartTime == 2 * CLEANUP_INTERVAL

(***************************************************************************)
(* Positions of an admitted invocation of generate_image, each a point     *)
(* where the coroutine is suspended:                                       *)
(*   started  at the yield of the "start" message (line 362)               *)
(*   posting  awaiting the provider POST (lines 265-270)                   *)
(*   getting  awaiting the image GET (lines 193-200)                       *)
(*   final    at the yield of the final message (line 380 or 384)          *)
(***************************************************************************)
PCs == {"started", "posting", "getting", "final"}

NoJobs == [u \in Users |-> [p \in PCs |-> 0]]

Move(js, u, from, to) ==
    [js EXCEPT ![u] = [p \in PCs |->
        IF p = from /\ p = to THEN js[u][p]
        ELSE IF p = from THEN js[u][p] - 1
        ELSE IF p = to THEN js[u][p] + 1
        ELSE js[u][p]]]

JobCount(u) == jobs[u]["started"] + jobs[u]["posting"] + jobs[u]["getting"] + jobs[u]["final"]

\* what a step did: the operation, the user it served, the kind of message
\* or outcome, for a failure what caused it, and for a sweep the files whose
\* removal failed and the number of files it removed
Ev(op, user, msg, detail) ==
    [op |-> op, user |-> user, msg |-> msg, detail |-> detail, cause |-> "",
     failed |-> {}, deleted |-> 0]

\* the failure message of lines 382-384: what happened (cause), the prefix
\* the message starts with (msg) and the text after it (detail)
FailEv(user, cause, msg, detail) ==
    [op |-> "fail", user |-> user, msg |-> msg, detail |-> detail, cause |-> cause,
     failed |-> {}, deleted |-> 0]

SweepEv(msg, failed, deleted) ==
    [op |-> "sweep", user |-> "-", msg |-> msg, detail |-> "", cause |-> "",
     failed |-> failed, deleted |-> deleted]

\* the message text of a command: the trigger word and the words after it
Trigger == "draw"

Texts == {<<>>, <<Trigger>>, <<Trigger, " ">>, <<Trigger, " ", "sky">>, <<"sky", Trigger>>}

ImageLists == {<<>>, <<"http://img">>}

\* lines 331-332: re.sub(trigger, "", full_text).strip()
RealPrompt(full_text) == Strip(SelectSeq(full_text, LAMBDA w : w # Trigger))

PutKey(f, k, v) == [x \in DOMAIN f \cup {k} |-> IF x = k THEN v ELSE f[x]]

\* the directory listing fs without the files at the positions in S
RECURSIVE Without(_, _)
Without(fs, S) ==
    IF Len(fs) = 0 THEN << >>
    ELSE IF Len(fs) \in S THEN Without(SubSeq(fs, 1, Len(fs) - 1), S)
    ELSE Append(Without(SubSeq(fs, 1, Len(fs) - 1), S), fs[Len(fs)])

(***************************************************************************)
(* The state after construction (lines 28-66).                             *)
(***************************************************************************)
PlugInit(auto_clean_delay, key) ==
    /\ api_key_set = key
    /\ retention_hours = RetentionOf(auto_clean_delay)
    /\ now = StartTime
    /\ ticks = 0
    /\ last_operations = << >>
    /\ processing_users = {}
    /\ jobs = NoJobs
    /\ session = "none"
    /\ sessions_created = 0
    /\ sessions_closed = 0
    /\ terminated = FALSE
    /\ dir_exists = FALSE
    /\ files = << >>
    /\ last_cleanup_time = 0
    /\ cleanup_lock = FALSE
    /\ sweep_pending = 0
    /\ sweepers = << >>
    /\ downloads = 0
    /\ event = Ev("init", "-", "", "")
    /\ last_admit = << >>
    /\ last_work = -1

Constructed ==
    /\ image_size = DefaultImageSize
    /\ valid_size = ResolveSize(image_size)[1]
    /\ size_error = ResolveSize(image_size)[2]
    /\ constructed = TRUE

\* the clock advances by d seconds
Advance(d) ==
    /\ ticks < MaxTicks
    /\ now' = now + d
    /\ ticks' = ticks + 1
    /\ event' = Ev("tick", "-", "", "")
    /\ UNCHANGED <<sizeVars, downloads, api_key_set, retention_hours, last_operations,
                   processing_users, jobs, session, sessions_created,
                   sessions_closed, terminated, dir_exists, files,
                   last_cleanup_time, cleanup_lock, sweep_pending, sweepers,
                   last_admit, last_work>>

Tick == Advance(ShortStep)

LongTick == Advance(LongStep)

(***************************************************************************)
(* generate_image up to its first suspension (lines 314-362): the cooldown *)
(* check, the update of last_operations, the duplicate check, the empty    *)
(* input check and the admission.                                          *)
(***************************************************************************)
\* the cooldown check left out
InCooldownNever(user_id, current_time) == FALSE

\* the cooldown check with <= for <
InCooldownInclusive(user_id, current_time) ==
    /\ user_id \in DOMAIN last_operations
    /\ current_time - last_operations[user_id] <= RATE_LIMIT_SECONDS

\* lines 342-343
InCooldown(user_id, current_time) ==
    /\ user_id \in DOMAIN last_operations
    /\ current_time - last_operations[user_id] < RATE_LIMIT_SECONDS

\* the duplicate check left out
IsProcessingNever(user_id) == FALSE

\* line 349
IsProcessing(user_id) == user_id \in processing_users

\* the empty-input check left out
EmptyInputNever(real_prompt, image_urls) == FALSE

\* line 354: no prompt and no image
EmptyInput(real_prompt, image_urls) == real_prompt = <<>> /\ image_urls = <<>>

\* what the command carried, as the observation of the step records it:
\* "blank" when nothing is left of the text once the trigger is removed and
\* no image is attached, "given" otherwise
InputKind(full_text, image_urls) ==
    IF Strip(SelectSeq(full_text, LAMBDA w : w # Trigger)) = <<>> /\ Len(image_urls) = 0
    THEN "blank" ELSE "given"

\* the time written before the cooldown check
StampAlways(user_id, current_time) == PutKey(last_operations, user_id, current_time)

\* lines 342-346: last_operations once the cooldown check is over, the
\* time written only for a command that passed it
Stamp(user_id, current_time) ==
    IF InCooldown(user_id, current_time) THEN last_operations
    ELSE PutKey(last_operations, user_id, current_time)

generate_image(user_id, full_text, image_urls) ==
    /\ last_operations' = Stamp(user_id, now)
    /\ IF InCooldown(user_id, now)
       THEN /\ event' = Ev("reject", user_id, "cooldown", InputKind(full_text, image_urls))
            /\ UNCHANGED <<processing_users, jobs, last_admit>>
       ELSE /\ IF IsProcessing(user_id)
               THEN /\ event' = Ev("reject", user_id, "duplicate", InputKind(full_text, image_urls))
                    /\ UNCHANGED <<processing_users, jobs, last_admit>>
               ELSE IF EmptyInput(RealPrompt(full_text), image_urls)
               THEN /\ event' = Ev("reject", user_id, "empty", InputKind(full_text, image_urls))
                    /\ UNCHANGED <<processing_users, jobs, last_admit>>
               ELSE /\ processing_users' = processing_users \cup {user_id}
                    /\ jobs' = [jobs EXCEPT ![user_id]["started"] = @ + 1]
                    /\ last_admit' = PutKey(last_admit, user_id, now)
                    /\ event' = Ev("admit", user_id, "", InputKind(full_text, image_urls))
    /\ UNCHANGED <<sizeVars, downloads, api_key_set, retention_hours, now, ticks, session,
                   sessions_created, sessions_closed, terminated, dir_exists,
                   files, last_cleanup_time, cleanup_lock, sweep_pending,
                   sweepers, last_work>>

\* the host routes commands to the plugin until it has unloaded it; the
\* invocations already running go on after terminate
Command ==
    /\ ~terminated
    /\ \E u \in Users, text \in Texts, imgs \in ImageLists :
          generate_image(u, text, imgs)

(***************************************************************************)
(* The session property (lines 68-81): a new ClientSession is created when *)
(* there is none or the current one is closed.                             *)
(***************************************************************************)
CreatesSession == session \in {"none", "closed"}

UseSession ==
    /\ session' = "open"
    /\ sessions_created' = IF CreatesSession THEN sessions_created + 1 ELSE sessions_created

(***************************************************************************)
(* An admitted command resumes after the "start" message (line 365):       *)
(* _call_seedream_api raises when no key is configured (lines 241-242),    *)
(* else sends the POST through the shared session (lines 265-269).         *)
(***************************************************************************)
StartJob(u) ==
    /\ jobs[u]["started"] > 0
    /\ IF ~api_key_set
       THEN /\ jobs' = Move(jobs, u, "started", "final")
            /\ event' = FailEv(u, "no_api_key", "", "no key")
            /\ UNCHANGED <<session, sessions_created>>
       ELSE /\ UseSession
            /\ jobs' = Move(jobs, u, "started", "posting")
            /\ event' = Ev("post", u, "", "")
    /\ UNCHANGED <<sizeVars, downloads, api_key_set, retention_hours, now, ticks,
                   last_operations, processing_users, sessions_closed,
                   terminated, dir_exists, files, last_cleanup_time,
                   cleanup_lock, sweep_pending, sweepers, last_admit, last_work>>

(***************************************************************************)
(* What the provider POST can end with (lines 265-308): a transport error  *)
(* (aiohttp.ClientError), the total timeout of the session (line 24:       *)
(* asyncio.TimeoutError, which is not a ClientError), a body that is not   *)
(* JSON, a status other than 200 with the error code of the envelope (""   *)
(* when the envelope has none), a 200 answer without data or without url.  *)
(***************************************************************************)
\* lines 285-290: the error codes that have a message of their own
error_mapping ==
    [InvalidParameter |-> "parameter error",
     Unauthorized |-> "key invalid or unauthorized",
     Forbidden |-> "key without permission",
     TooManyRequests |-> "call rate exceeded"]

ErrorCodes == DOMAIN error_mapping \cup {"InternalServiceError", ""}

PostFailures ==
    {"client_error", "timeout", "non_json", "no_data", "no_url"} \cup ErrorCodes

\* the provider's message passed on for every error code
PostFailureKindRaw(outcome) ==
    CASE outcome = "client_error" -> "transport error"
      [] outcome = "timeout" -> ""
      [] outcome = "non_json" -> "non-JSON response"
      [] outcome = "no_data" -> "no image data"
      [] outcome = "no_url" -> "no image url"
      [] outcome = "" -> "request failed [HTTP status]"
      [] OTHER -> "provider message"

\* the text of the exception raised inside the try of lines 263-303: for an
\* error code of error_mapping its message of lines 285-290 (followed by
\* the provider's, line 293), for another code the provider's message, with
\* no envelope the default of line 279; str() of a TimeoutError is empty
PostFailureKind(outcome) ==
    CASE outcome = "client_error" -> "transport error"
      [] outcome = "timeout" -> ""
      [] outcome = "non_json" -> "non-JSON response"
      [] outcome = "no_data" -> "no image data"
      [] outcome = "no_url" -> "no image url"
      [] outcome = "" -> "request failed [HTTP status]"
      [] outcome \in DOMAIN error_mapping -> error_mapping[outcome]
      [] OTHER -> "provider message"

PostUrls == {"http_url", "other_url"}

\* aiohttp.ClientError is reported as a network failure (lines 305-306),
\* every other exception as an API call failure (lines 307-308)
PostFailureMessage(outcome) ==
    IF outcome = "client_error" THEN "network:" ELSE "api:"

(***************************************************************************)
(* The POST ends, with any of its outcomes whether or not terminate has    *)
(* closed the session meanwhile.  A failure goes to the handler's except   *)
(* clause, which yields the failure message.  A URL goes on into           *)
(* _download_generated_image (lines 175-197): the sweep task is created    *)
(* first, then the URL is checked, then the GET is sent.                   *)
(***************************************************************************)
PostFails(u) ==
    /\ jobs[u]["posting"] > 0
    /\ \E o \in PostFailures :
          event' = FailEv(u, o, PostFailureMessage(o), PostFailureKind(o))
    /\ jobs' = Move(jobs, u, "posting", "final")
    /\ UNCHANGED <<sizeVars, downloads, api_key_set, retention_hours, now, ticks,
                   last_operations, processing_users, session,
                   sessions_created, sessions_closed, terminated, dir_exists,
                   files, last_cleanup_time, cleanup_lock, sweep_pending,
                   sweepers, last_admit, last_work>>

\* a download that creates no sweep task
SpawnSweepNever == UNCHANGED sweep_pending

\* line 178: asyncio.create_task(self._cleanup_temp_files())
SpawnSweep ==
    /\ sweep_pending < MaxSweeps
    /\ sweep_pending' = sweep_pending + 1

PostReturnsUrl(u) ==
    /\ jobs[u]["posting"] > 0
    /\ SpawnSweep
    /\ \E url \in PostUrls :
          IF url # "http_url"
          THEN /\ jobs' = Move(jobs, u, "posting", "final")
               /\ event' = FailEv(u, "invalid_url", "", "invalid url")
               /\ UNCHANGED <<session, sessions_created>>
          ELSE /\ UseSession
               /\ jobs' = Move(jobs, u, "posting", "getting")
               /\ event' = Ev("get", u, "", "")
    /\ UNCHANGED <<sizeVars, downloads, api_key_set, retention_hours, now, ticks,
                   last_operations, processing_users, sessions_closed,
                   terminated, dir_exists, files, last_cleanup_time,
                   cleanup_lock, sweepers, last_admit, last_work>>

(***************************************************************************)
(* The GET ends (lines 198-215).  Status 200 and a readable body: the      *)
(* directory is created if absent and the file is written, then the        *)
(* handler yields the reply (line 380).  Otherwise the handler yields the  *)
(* failure message; a failed write has created the directory already.      *)
(***************************************************************************)
GetFailures == {"http_status", "client_error", "timeout", "write_error"}

\* a download that returns a path without writing the file
StoreNothing == UNCHANGED <<files, dir_exists>>

\* lines 203-210: mkdir(exist_ok) and the write of a file of a new name
StoreImage ==
    /\ Len(files) < MaxFiles
    /\ dir_exists' = TRUE
    /\ files' = Append(files, now)

GetSucceeds(u) ==
    /\ jobs[u]["getting"] > 0
    /\ StoreImage
    /\ jobs' = Move(jobs, u, "getting", "final")
    /\ event' = Ev("reply", u, "", "")
    /\ UNCHANGED <<sizeVars, downloads, api_key_set, retention_hours, now, ticks,
                   last_operations, processing_users, session,
                   sessions_created, sessions_closed, terminated,
                   last_cleanup_time, cleanup_lock, sweep_pending, sweepers,
                   last_admit, last_work>>

GetFails(u) ==
    /\ jobs[u]["getting"] > 0
    /\ \E o \in GetFailures :
          /\ event' = FailEv(u, "download", "download:", "")
          /\ dir_exists' = IF o = "write_error" THEN TRUE ELSE dir_exists
    /\ jobs' = Move(jobs, u, "getting", "final")
    /\ UNCHANGED <<sizeVars, downloads, api_key_set, retention_hours, now, ticks,
                   last_operations, processing_users, session,
                   sessions_created, sessions_closed, terminated, files,
                   last_cleanup_time, cleanup_lock, sweep_pending, sweepers,
                   last_admit, last_work>>

(***************************************************************************)
(* The handler resumes after its final message and runs the finally        *)
(* clause (lines 386-388); the invocation is complete.                     *)
(***************************************************************************)
\* a finally clause that forgets the flag
FinallyKeepsFlag(u) == processing_users

\* a finally clause that clears the whole set
FinallyClearsAll(u) == {}

\* lines 387-388
FinallyClause(u) == processing_users \ {u}

Finish(u) ==
    /\ jobs[u]["final"] > 0
    /\ processing_users' = FinallyClause(u)
    /\ jobs' = [jobs EXCEPT ![u]["final"] = @ - 1]
    /\ event' = Ev("finish", u, "", "")
    /\ UNCHANGED <<sizeVars, downloads, api_key_set, retention_hours, now, ticks,
                   last_operations, session, sessions_created,
                   sessions_closed, terminated, dir_exists, files,
                   last_cleanup_time, cleanup_lock, sweep_pending, sweepers,
                   last_admit, last_work>>

(***************************************************************************)
(* terminate (lines 83-104): every file of the image directory is removed  *)
(* (a failing os.remove is ignored), the directory is removed when that    *)
(* left it empty, and the session is closed when it is open.               *)
(***************************************************************************)
terminate ==
    /\ ~terminated
    /\ terminated' = TRUE
    /\ IF dir_exists
       THEN \E kept \in SUBSET DOMAIN files :
               /\ files' = Without(files, DOMAIN files \ kept)
               /\ dir_exists' = (kept # {})
       ELSE UNCHANGED <<files, dir_exists>>
    /\ IF session = "open"
       THEN session' = "closed" /\ sessions_closed' = sessions_closed + 1
       ELSE UNCHANGED <<session, sessions_closed>>
    /\ event' = Ev("terminate", "-", "", "")
    /\ UNCHANGED <<sizeVars, downloads, api_key_set, retention_hours, now, ticks,
                   last_operations, processing_users, jobs, sessions_created,
                   last_cleanup_time, cleanup_lock, sweep_pending, sweepers,
                   last_admit, last_work>>

(***************************************************************************)
(* _cleanup_temp_files (lines 132-173), run as a task of its own (line     *)
(* 178).  SweepStart is the task up to line 143: the retention check, the  *)
(* acquisition of cleanup_lock and the reading of the clock.  SweepBody is *)
(* the rest, under the lock.  Other tasks may be scheduled between the     *)
(* two, so it is the lock that keeps two sweeps apart.                     *)
(***************************************************************************)
\* a sweep that enters without waiting for the lock
LockIgnored == TRUE

\* line 142: the lock is acquired when no other task holds it
CanAcquire == cleanup_lock = FALSE

SweepStart ==
    /\ sweep_pending > 0
    /\ IF retention_hours <= 0
       THEN /\ sweep_pending' = sweep_pending - 1
            /\ event' = Ev("sweep", "-", "disabled", "")
            /\ UNCHANGED <<cleanup_lock, sweepers>>
       ELSE /\ CanAcquire
            /\ cleanup_lock' = TRUE
            /\ sweepers' = Append(sweepers, [now |-> now])
            /\ sweep_pending' = sweep_pending - 1
            /\ event' = Ev("sweep_enter", "-", "", "")
    /\ UNCHANGED <<sizeVars, downloads, api_key_set, retention_hours, now, ticks,
                   last_operations, processing_users, jobs, session,
                   sessions_created, sessions_closed, terminated, dir_exists,
                   files, last_cleanup_time, last_admit, last_work>>

RemoveAt(seq, i) == SubSeq(seq, 1, i - 1) \o SubSeq(seq, i + 1, Len(seq))

\* the age test with >= for >
ExpiredAtOrOver(fs, t) == {n \in DOMAIN fs : t - fs[n] >= retention_hours}

\* line 160: the files whose age at time t exceeds the retention window
Expired(fs, t) == {n \in DOMAIN fs : t - fs[n] > retention_hours}

\* line 145: the sweep returns when the interval has not passed
Throttled(t) == t - last_cleanup_time < CLEANUP_INTERVAL

\* the exit of "async with self.cleanup_lock" (line 142)
Release(i) ==
    /\ cleanup_lock' = FALSE
    /\ sweepers' = RemoveAt(sweepers, i)

SweepThrottled(i) ==
    /\ i \in 1..Len(sweepers)
    /\ Throttled(sweepers[i].now)
    /\ Release(i)
    /\ event' = Ev("sweep", "-", "throttled", "")
    /\ UNCHANGED <<sizeVars, downloads, api_key_set, retention_hours, now, ticks,
                   last_operations, processing_users, jobs, session,
                   sessions_created, sessions_closed, terminated, dir_exists,
                   files, last_cleanup_time, sweep_pending, last_admit,
                   last_work>>

\* lines 148-151: no directory, the time is recorded and nothing is listed
SweepNoDir(i) ==
    /\ i \in 1..Len(sweepers)
    /\ ~Throttled(sweepers[i].now)
    /\ ~dir_exists
    /\ last_cleanup_time' = sweepers[i].now
    /\ Release(i)
    /\ event' = Ev("sweep", "-", "no_dir", "")
    /\ UNCHANGED <<sizeVars, downloads, api_key_set, retention_hours, now, ticks,
                   last_operations, processing_users, jobs, session,
                   sessions_created, sessions_closed, terminated, dir_exists,
                   files, sweep_pending, last_admit, last_work>>

(***************************************************************************)
(* Lines 153-173: the directory is listed and each file inspected in the   *)
(* order of the listing.  `seen` are the files inspected, `failed` those   *)
(* among them whose os.remove raised (caught at line 164, the loop goes    *)
(* on).  The scan is complete when every file was inspected: then line 170 *)
(* records the time.  An exception from is_file() or stat() ends the loop  *)
(* early (caught at line 172) and the time is not recorded.                *)
(***************************************************************************)
SweepScan(i) ==
    /\ i \in 1..Len(sweepers)
    /\ ~Throttled(sweepers[i].now)
    /\ dir_exists
    /\ \E seen \in SUBSET DOMAIN files, complete \in BOOLEAN :
          /\ complete => seen = DOMAIN files
          /\ ~complete => seen # DOMAIN files
          /\ \E failed \in SUBSET (Expired(files, sweepers[i].now) \cap seen) :
                /\ files' = Without(files,
                      (Expired(files, sweepers[i].now) \cap seen) \ failed)
                /\ event' = SweepEv(IF complete THEN "done" ELSE "aborted", failed,
                      Cardinality((Expired(files, sweepers[i].now) \cap seen) \ failed))
          /\ last_cleanup_time' = IF complete THEN sweepers[i].now ELSE last_cleanup_time
    /\ last_work' = sweepers[i].now
    /\ Release(i)
    /\ UNCHANGED <<sizeVars, downloads, api_key_set, retention_hours, now, ticks,
                   last_operations, processing_users, jobs, session,
                   sessions_created, sessions_closed, terminated, dir_exists,
                   sweep_pending, last_admit>>

\* os.listdir itself raises (caught at line 172): nothing is listed
SweepListFails(i) ==
    /\ i \in 1..Len(sweepers)
    /\ ~Throttled(sweepers[i].now)
    /\ dir_exists
    /\ Release(i)
    /\ event' = Ev("sweep", "-", "list_error", "")
    /\ UNCHANGED <<sizeVars, downloads, api_key_set, retention_hours, now, ticks,
                   last_operations, processing_users, jobs, session,
                   sessions_created, sessions_closed, terminated, dir_exists,
                   files, last_cleanup_time, sweep_pending, last_admit,
                   last_work>>

SweepBody ==
    \E i \in 1..Len(sweepers) :
        \/ SweepThrottled(i)
        \/ SweepNoDir(i)
        \/ SweepScan(i)
        \/ SweepListFails(i)

\* the next step of the admitted command of u, whichever it is
JobOf(u) ==
    \/ StartJob(u)
    \/ PostFails(u)
    \/ PostReturnsUrl(u)
    \/ GetSucceeds(u)
    \/ GetFails(u)
    \/ Finish(u)

JobStep == \E u \in Users : JobOf(u)

(***************************************************************************)
(* Spec: the command handler, the session and terminate, for two users     *)
(* and a clock of short steps.  The plugin is configured with a negative   *)
(* auto_clean_delay, so every sweep task returns at line 140; the sweeper  *)
(* itself is the subject of SpecSweep.  No sweep step writes a variable    *)
(* that the handler reads.                                                 *)
(***************************************************************************)
Init ==
    /\ Constructed
    /\ \E key \in BOOLEAN : PlugInit(-60, key)

Next ==
    \/ Tick
    \/ Command
    \/ JobStep
    \/ terminate
    \/ SweepStart

Spec == Init /\ [][Next]_vars

(***************************************************************************)
(* FairSpec: the command handler with the scheduling it relies on.  The    *)
(* host resumes the generator after each message it yields (lines 362,     *)
(* 380, 384) and every request ends, with an answer or an error, at the    *)
(* latest by the total timeout of the session (line 24): an admitted       *)
(* command that can take its next step eventually takes it.  Nothing of    *)
(* an admitted command's course reads the clock, which stands still here:  *)
(* the commands that follow a user's first one are rejected, and can be    *)
(* repeated without end.                                                   *)
(***************************************************************************)
NextFair ==
    \/ Command
    \/ JobStep
    \/ terminate
    \/ SweepStart

FairSpec ==
    /\ Init
    /\ [][NextFair]_vars
    /\ \A u \in Users : WF_vars(JobOf(u))

(***************************************************************************)
(* SpecSweep: the sweeper, the downloads that create its tasks and the     *)
(* files, and terminate.  _download_generated_image (lines 175-215) is     *)
(* entered by any number of callers at any time (up to MaxDownloads at     *)
(* once, one per user, as the duplicate guard allows): every sequence of   *)
(* downloads that admitted commands can produce is among these.            *)
(***************************************************************************)
MaxDownloads == Cardinality(Users)

DownloadBegin ==
    /\ downloads < MaxDownloads
    /\ SpawnSweep
    /\ \E url \in PostUrls :
          IF url # "http_url"
          THEN /\ event' = Ev("download_fail", "-", "invalid_url", "")
               /\ UNCHANGED <<downloads, session, sessions_created>>
          ELSE /\ UseSession
               /\ downloads' = downloads + 1
               /\ event' = Ev("download_get", "-", "", "")
    /\ UNCHANGED <<sizeVars, api_key_set, retention_hours, now, ticks,
                   last_operations, processing_users, jobs, sessions_closed,
                   terminated, dir_exists, files, last_cleanup_time,
                   cleanup_lock, sweepers, last_admit, last_work>>

DownloadStored ==
    /\ downloads > 0
    /\ downloads' = downloads - 1
    /\ StoreImage
    /\ event' = Ev("download_stored", "-", "", "")
    /\ UNCHANGED <<sizeVars, api_key_set, retention_hours, now, ticks,
                   last_operations, processing_users, jobs, session,
                   sessions_created, sessions_closed, terminated,
                   last_cleanup_time, cleanup_lock, sweep_pending, sweepers,
                   last_admit, last_work>>

DownloadFailed ==
    /\ downloads > 0
    /\ downloads' = downloads - 1
    /\ \E o \in GetFailures :
          /\ event' = Ev("download_fail", "-", "download:", "")
          /\ dir_exists' = IF o = "write_error" THEN TRUE ELSE dir_exists
    /\ UNCHANGED <<sizeVars, api_key_set, retention_hours, now, ticks,
                   last_operations, processing_users, jobs, session,
                   sessions_created, sessions_closed, terminated, files,
                   last_cleanup_time, cleanup_lock, sweep_pending, sweepers,
                   last_admit, last_work>>

InitSweep ==
    /\ Constructed
    /\ \E d \in SweepDelays : PlugInit(d, TRUE)

NextSweep ==
    \/ Tick
    \/ LongTick
    \/ DownloadBegin
    \/ DownloadStored
    \/ DownloadFailed
    \/ terminate
    \/ SweepStart
    \/ SweepBody

SpecSweep == InitSweep /\ [][NextSweep]_vars

(***************************************************************************)
(* Construction on its own: the configured size is any of SizeInputs and   *)
(* __init__ resolves it (lines 35, 40-44).                                 *)
(***************************************************************************)
InitSize ==
    /\ image_size \in SizeInputs
    /\ valid_size = << >>
    /\ size_error = ""
    /\ constructed = FALSE
    /\ PlugInit(0, TRUE)

Construct ==
    /\ ~constructed
    /\ constructed' = TRUE
    /\ valid_size' = ResolveSize(image_size)[1]
    /\ size_error' = ResolveSize(image_size)[2]
    /\ UNCHANGED <<image_size, plugVars>>

NextSize == Construct

SpecSize == InitSize /\ [][NextSize]_vars

(***************************************************************************)
(* Claims about the command handler, checked under Spec.                   *)
(***************************************************************************)
\* the step is an invocation of generate_image by u reaching its verdict
CommandStep(u) == event'.op \in {"admit", "reject"} /\ event'.user = u

\* the step starts no job and sends nothing
NothingStarted == UNCHANGED <<jobs, processing_users, session, sessions_created,
                              sweep_pending, files, dir_exists>>

\* C1 as stated: after any invocation completes, an early rejection
\* included, the issuing user is not in processing_users.
C1_FlagAbsentAfterAnyCommand ==
    event.op \in {"reject", "finish"} => event.user \notin processing_users

\* C1 as amended: after an admitted invocation completes (its finally clause
\* has run) the user is not in processing_users; after an early rejection the
\* user is in processing_users exactly when an earlier admitted command of
\* the same user is still in flight.
C1_FlagAbsentAfterAdmittedCommand ==
    /\ event.op = "finish" => event.user \notin processing_users
    /\ event.op = "reject" =>
          (event.user \in processing_users <=> JobCount(event.user) > 0)

C1_Witness ==
    /\ event.op = "finish"
    /\ event.user \notin processing_users
    /\ \E v \in Users : v # event.user /\ v \in processing_users

\* C2: a command of a user who is in processing_users is rejected, starts no
\* job and sends nothing; when RATE_LIMIT_SECONDS have passed since the time
\* recorded for the user the rejection is the duplicate one.
C2_InFlightUserRejected ==
    [][\A u \in Users :
          (CommandStep(u) /\ u \in processing_users) =>
             /\ event'.op = "reject"
             /\ NothingStarted
             /\ now - last_operations[u] >= RATE_LIMIT_SECONDS
                   => event'.msg = "duplicate"]_vars

C2_Witness ==
    /\ event.op = "reject"
    /\ event.msg = "duplicate"
    /\ event.user \in processing_users
    /\ now - last_admit[event.user] >= RATE_LIMIT_SECONDS

\* C3: a command of a user arriving less than RATE_LIMIT_SECONDS after a
\* command of that user was admitted is rejected with the cooldown message,
\* starts no job and sends nothing.
C3_CooldownAfterAdmission ==
    [][\A u \in Users :
          (/\ CommandStep(u)
           /\ u \in DOMAIN last_admit
           /\ now - last_admit[u] < RATE_LIMIT_SECONDS) =>
             /\ event'.op = "reject"
             /\ event'.msg = "cooldown"
             /\ NothingStarted]_vars

C3_Witness ==
    /\ event.op = "reject"
    /\ event.msg = "cooldown"
    /\ event.user \in DOMAIN last_admit
    /\ now - last_admit[event.user] < RATE_LIMIT_SECONDS
    /\ now > last_admit[event.user]
    /\ event.user \notin processing_users

\* C4 as stated: a command is rejected for cooldown exactly when fewer than
\* RATE_LIMIT_SECONDS have passed since the user's last admitted command.
C4_WindowFromLastAdmitted ==
    [][\A u \in Users :
          CommandStep(u) =>
             ((event'.op = "reject" /\ event'.msg = "cooldown")
                <=> (u \in DOMAIN last_admit
                     /\ now - last_admit[u] < RATE_LIMIT_SECONDS))]_vars

\* C4 as amended: a command is rejected for cooldown exactly when fewer than
\* RATE_LIMIT_SECONDS have passed since the user's last command that was not
\* rejected for cooldown; every such command, whether admitted or rejected
\* as duplicate or as empty input, restarts the window, and a command
\* rejected for cooldown leaves it alone.
C4_WindowFromLastPassed ==
    [][\A u \in Users :
          CommandStep(u) =>
             /\ (event'.op = "reject" /\ event'.msg = "cooldown")
                   <=> (u \in DOMAIN last_operations
                        /\ now - last_operations[u] < RATE_LIMIT_SECONDS)
             /\ IF event'.op = "reject" /\ event'.msg = "cooldown"
                THEN last_operations' = last_operations
                ELSE /\ u \in DOMAIN last_operations'
                     /\ last_operations'[u] = now
                     /\ \A v \in DOMAIN last_operations \ {u} :
                           last_operations'[v] = last_operations[v]]_vars

C4_Witness ==
    /\ event.op = "reject"
    /\ event.msg = "cooldown"
    /\ event.user \in DOMAIN last_admit
    /\ now - last_admit[event.user] >= RATE_LIMIT_SECONDS

(***************************************************************************)
(* Claims about the size resolution, checked under SpecSize.               *)
(***************************************************************************)
\* a 'WxH' value (either case of the x) within the provider's bounds
WithinProviderBounds(size) ==
    /\ SizeMatch(size) # {}
    /\ SizeWidth(size) * SizeHeight(size) >= MIN_PIXELS
    /\ SizeWidth(size) <= MAX_SIDE
    /\ SizeHeight(size) <= MAX_SIDE

\* C5: a configured 'WxH' with W > 8192 or H > 8192 resolves to 4096x4096.
\* Stated for the sizes that reach the side check of line 124 (those of at
\* least MIN_PIXELS pixels), where _validate_image_size itself answers
\* 4096x4096.
C5_OversizeResolvesTo4096 ==
    (/\ constructed
     /\ SizeMatch(Strip(image_size)) # {}
     /\ SizeWidth(Strip(image_size)) * SizeHeight(Strip(image_size)) >= MIN_PIXELS
     /\ (SizeWidth(Strip(image_size)) > MAX_SIDE
            \/ SizeHeight(Strip(image_size)) > MAX_SIDE))
       => valid_size = Size4096

C7_NoRequestAfterClose ==
    /\ sessions_closed <= 1
    /\ sessions_closed = 1 => terminated
    /\ terminated =>
          /\ event.op \notin {"post", "get"}
          /\ session # "open"
          /\ sessions_closed = sessions_created

(***************************************************************************)
(* Claims about the sweeper, checked under SpecSweep.                      *)
(***************************************************************************)
\* the step is a sweep that listed the directory
SweepWorked == event'.op = "sweep" /\ event'.msg \in {"done", "aborted"}

\* C8: two sweeps that list the directory read the clock at least
\* CLEANUP_INTERVAL apart, whatever the first one ended with.
C8_WorkOncePerInterval ==
    [][(SweepWorked /\ last_work # -1)
          => last_work' - last_work >= CLEANUP_INTERVAL]_vars

\* C9: at most one sweep is inside the body of _cleanup_temp_files, and it
\* is there exactly while cleanup_lock is held.
C9_OneSweepInBody ==
    /\ Len(sweepers) <= 1
    /\ cleanup_lock <=> Len(sweepers) = 1

C9_Witness ==
    /\ Len(sweepers) = 1
    /\ sweep_pending > 0
    /\ downloads = MaxDownloads

\* the files whose age at time t is over the retention window
Overdue(fs, t) == {n \in DOMAIN fs : t - fs[n] > retention_hours}

C11_TerminateCancelsSweeps ==
    [][event'.op = "terminate" => (sweep_pending' = 0 /\ sweepers' = << >>)]_vars

C14_NoFileAfterShutdown ==
    [][terminated => files' = << >>]_vars

\* the network-level failures of the provider request
NetworkFailures == {"client_error", "timeout"}

\* C15: a failure of the provider request is reported with the network
\* prefix exactly when it is a network-level failure (a transport error or
\* a timeout): never for an error the provider reported or a malformed
\* answer.
C15_NetworkCategory ==
    (event.op = "fail" /\ event.cause \in PostFailures) =>
       (event.msg = "network:" <=> event.cause \in NetworkFailures)

(***************************************************************************)
(* Claims about the course of an admitted command, checked under Spec.     *)
(***************************************************************************)
\* the step creates a sweep task
Spawned == sweep_pending' > sweep_pending

\* the step enters _download_generated_image: it ends with the GET sent or
\* with the URL refused
DownloadEntered ==
    event'.op = "get" \/ (event'.op = "fail" /\ event'.cause = "invalid_url")

\* C16 as stated: a sweep task is spawned only by a download that has
\* succeeded (the step that stores the image), never for a command that was
\* rejected, whose generation failed or whose download failed.
C16_SweepSpawnedBySuccess ==
    [][Spawned => event'.op = "reply"]_vars

\* C16 as amended: exactly one sweep task is spawned by every entry into
\* the download, before the URL is checked and the GET sent, whatever the
\* download ends with; no other step spawns one, in particular neither a
\* rejection, nor a failed generation, nor the end of the download.
C16_SweepSpawnedByDownloadStart ==
    [][/\ Spawned <=> DownloadEntered
       /\ Spawned => sweep_pending' = sweep_pending + 1
       /\ event'.op \in {"admit", "reject", "post", "reply", "finish"}
             => sweep_pending' = sweep_pending
       /\ (event'.op = "fail" /\ event'.cause # "invalid_url")
             => sweep_pending' = sweep_pending]_vars

C16_Witness ==
    /\ event.op = "fail"
    /\ event.cause = "download"
    /\ sweep_pending = 1
    /\ files = << >>

\* the step moves the one job of u from position `from` to position `to`
Moved(u, from, to) ==
    /\ jobs[u][from] = 1
    /\ jobs'[u] = [jobs[u] EXCEPT ![from] = 0, ![to] = 1]

\* C17: a command is rejected, or admitted and then goes through the POST,
\* the GET and its final message in this order: the POST is sent by an
\* admitted command that has sent nothing yet, the GET only by a command
\* whose POST was awaited, a file is written only by the step in which the
\* awaited GET of a command returns, that step emits the success reply, and
\* every admitted command emits one final message, the reply or a failure,
\* after which it only ends.
C17_HandlerStateMachine ==
    [][\A u \in Users :
          /\ (event'.user = u /\ event'.op = "reject") => jobs' = jobs
          /\ (event'.user = u /\ event'.op = "admit") =>
                JobCount(u) = 0 /\ jobs'[u] = [jobs[u] EXCEPT !["started"] = 1]
          /\ (event'.user = u /\ event'.op = "post") => Moved(u, "started", "posting")
          /\ (event'.user = u /\ event'.op = "get") => Moved(u, "posting", "getting")
          /\ (event'.user = u /\ event'.op = "reply") =>
                /\ Moved(u, "getting", "final")
                /\ files' = Append(files, now)
          /\ (event'.user = u /\ event'.op = "fail") =>
                /\ \E p \in PCs \ {"final"} : Moved(u, p, "final")
                /\ files' = files
          /\ (event'.user = u /\ event'.op = "finish") =>
                jobs[u]["final"] = 1 /\ jobs'[u] = NoJobs[u]
          /\ jobs'[u] # jobs[u] =>
                /\ event'.user = u
                /\ event'.op \in {"admit", "post", "get", "reply", "fail", "finish"}
          /\ Len(files') > Len(files) => event'.op = "reply"]_vars

C17_Witness ==
    /\ event.op = "reply"
    /\ Len(files) = 2
    /\ jobs[event.user]["final"] = 1
    /\ \E v \in Users : jobs[v]["posting"] = 1

\* C18: each user has at most one admitted command that has not ended,
\* processing_users is exactly the set of the users that have one, and a
\* user leaves processing_users only in the step in which that user's own
\* command ends (its finally clause).
C18_OneJobPerUser ==
    [][\A u \in Users :
          /\ JobCount(u)' <= 1
          /\ u \in processing_users' <=> JobCount(u)' = 1
          /\ (u \in processing_users /\ u \notin processing_users') =>
                /\ event'.op = "finish"
                /\ event'.user = u
                /\ jobs[u]["final"] = 1
          /\ (u \notin processing_users /\ u \in processing_users') =>
                /\ event'.op = "admit"
                /\ event'.user = u]_vars

C18_Witness ==
    /\ processing_users = Users
    /\ \E u, v \in Users : jobs[u]["posting"] = 1 /\ jobs[v]["getting"] = 1
    /\ event.op = "reject"
    /\ event.msg = "duplicate"

\* C19: a command rejected for cooldown changes nothing of the plugin:
\* last_operations (the time kept for the issuing user included),
\* processing_users, last_cleanup_time, the files, the session and all the
\* rest are as before, so the window is not extended.
C19_CooldownRejectionChangesNothing ==
    [][(event'.op = "reject" /\ event'.msg = "cooldown") =>
          /\ event'.user \in DOMAIN last_operations
          /\ now - last_operations[event'.user] < RATE_LIMIT_SECONDS
          /\ UNCHANGED <<last_operations, processing_users, jobs,
                         last_cleanup_time, files, dir_exists, session,
                         sessions_created, sessions_closed, cleanup_lock,
                         sweep_pending, sweepers, valid_size, size_error,
                         api_key_set, retention_hours, terminated>>]_vars

C19_Witness ==
    /\ event.op = "reject"
    /\ event.msg = "cooldown"
    /\ now - last_operations[event.user] = ShortStep
    /\ event.user \in processing_users
    /\ session = "open"
    /\ Len(files) = 1

(***************************************************************************)
(* Claim about progress, checked under FairSpec.                           *)
(***************************************************************************)
\* C20: every admitted command eventually gets its final message, the
\* success reply or a failure message, and every user who is in
\* processing_users is eventually out of it.
C20_AdmittedCommandCompletes ==
    \A u \in Users :
       /\ (event.op = "admit" /\ event.user = u)
             ~> (event.op \in {"reply", "fail"} /\ event.user = u)
       /\ (u \in processing_users) ~> (u \notin processing_users)

C20_Witness ==
    /\ event.op = "finish"
    /\ processing_users = {}
    /\ terminated
    /\ Len(files) = 1
    /\ DOMAIN last_admit = Users

====
